---- MODULE Spec2Model ----
(***************************************************************************)
(* A model of the image server (src/index.js, the variant of lines         *)
(* 188-446, with src/hasher.js and src/sql/schema.sql).                    *)
(*                                                                         *)
(* Strings are sequences of one-character strings, so that path.extname,   *)
(* template concatenation and split('/').pop() are computed, not assumed.  *)
(* The registry is the images table (fn -> source); the object store is    *)
(* the set of regular files of the directory FULL_PATH.                    *)
(***************************************************************************)
EXTENDS Naturals, Sequences, FiniteSets, TLC

(***************************************************************************)
(* Bounds of the model.  The program draws identifiers of 6 characters     *)
(* from 62; the model draws HASH_LENGTH characters from the first two of   *)
(* the alphabet, so that candidates collide.                               *)
(***************************************************************************)
HASH_LENGTH == 1
NUploads    == 2
MaxFiles    == 2
MaxNames    == 2

\* while (tries < 10), if (tries === 10)
MAX_TRIES == 10

VARIABLES registry, store, parent, dbUp, up, del, sel, upd, rsv

\* The requests that read and set the sources of files.
meta == <<sel, upd, rsv>>

vars == <<registry, store, parent, dbUp, up, del, meta>>

Uploads == 1..NUploads

Range(s) == {s[i] : i \in DOMAIN s}

(***************************************************************************)
(* Strings                                                                 *)
(***************************************************************************)
Jpg  == <<".", "j", "p", "g">>
Png  == <<".", "p", "n", "g">>
Apng == <<".", "a", "p", "n", "g">>
Gif  == <<".", "g", "i", "f">>
Svg  == <<".", "s", "v", "g">>

\* ['.jpg', '.png', '.apng', '.gif']
AllowedExts == {Jpg, Png, Apng, Gif}

\* The source value of a row: SQL NULL, or a string.
Null   == <<"null">>
Str(s) == <<"str", s>>

\* No file of the request is being handled.
NoFile == <<>>

\* The names a client gives its files (file.originalname): an image, a
\* file of a type that is not served, a dotfile whose name looks like an
\* extension.
OrigNames == {<<"x">> \o Jpg, <<"x">> \o Svg, Jpg}

\* '../': the way out of a directory.
DotDotSlash == <<".", ".", "/">>

\* 404.html, a file of the directory above FULL_PATH (ERROR_HTML).
ErrorHtml == <<"4", "0", "4", ".", "h", "t", "m", "l">>

\* The files of the directory above FULL_PATH.
ParentFiles == {ErrorHtml}

\* The sources a client sends.
SourceStrs == {"s1"}

\* hasher.js: the alphabet, cut to its first two characters.
chars == <<"a", "b">>

\* generateChar(): the characters one call can return.
generateChar == Range(chars)

\* generateHash(length): the strings one call can return.
RECURSIVE generateHash(_)
generateHash(length) ==
    IF length = 0 THEN {<<>>}
    ELSE {h \o <<c>> : h \in generateHash(length - 1), c \in generateChar}

\* s.split(sep), sep one character.
RECURSIVE Split(_, _)
Split(s, sep) ==
    IF \A i \in DOMAIN s : s[i] # sep THEN <<s>>
    ELSE LET i == CHOOSE i \in DOMAIN s :
                      s[i] = sep /\ \A j \in 1..(i - 1) : s[j] # sep
         IN  <<SubSeq(s, 1, i - 1)>> \o Split(SubSeq(s, i + 1, Len(s)), sep)

\* array.pop(): the last element.
Pop(a) == a[Len(a)]

\* path.extname(p) (posix): from the last '.' of the last path segment to
\* its end; '' when there is none, when it is the segment's first
\* character, or when the segment is '..'.
ExtName(p) ==
    LET base == Pop(Split(p, "/"))
        dots == {i \in DOMAIN base : base[i] = "."}
    IN  IF dots = {} THEN <<>>
        ELSE LET last == CHOOSE i \in dots : \A j \in dots : j <= i
             IN  IF last = 1 \/ base = <<".", ".">> THEN <<>>
                 ELSE SubSeq(base, last, Len(base))

(***************************************************************************)
(* The registry: the table images(fn TEXT PRIMARY KEY, source TEXT)        *)
(***************************************************************************)
Has(reg, fn) == fn \in DOMAIN reg

\* INSERT INTO images(fn) VALUES (fn), on a table without the key.
RegInsert(reg, fn) ==
    [k \in DOMAIN reg \cup {fn} |-> IF k = fn THEN Null ELSE reg[k]]

\* DELETE FROM images WHERE fn = fn
RegDelete(reg, fn) == [k \in DOMAIN reg \ {fn} |-> reg[k]]

\* UPDATE images SET source = src WHERE fn = fn
RegUpdate(reg, src, fn) ==
    [k \in DOMAIN reg |-> IF k = fn THEN src ELSE reg[k]]

(***************************************************************************)
(* State                                                                   *)
(***************************************************************************)
\* An upload request.  pc is the place of its multer pipeline; orig, ext,
\* filename and tries are the locals of storage.filename for the file being
\* handled; files is req.files; pending are the UPDATE queries the
\* handler has issued and the pool has not yet run, sent all the UPDATE
\* queries it has issued.  removed, infra, dups
\* and ops record what the current storage.filename call has done: the
\* rows its DELETEs removed, whether an INSERT of it failed with the
\* registry unreachable, how many INSERTs of it failed on the primary key,
\* and how many queries it has run.
UploadIdle ==
    [pc |-> "idle", orig |-> NoFile, ext |-> <<>>, filename |-> <<>>, tries |-> 0,
     files |-> <<>>, err |-> "none", status |-> 0, pending |-> {},
     removed |-> {}, infra |-> FALSE, dups |-> 0, ops |-> 0, sent |-> {}]

\* The delete request: successful is the handler's list, pending the DELETE
\* queries it has issued and the pool has not yet run.  unlinked are the
\* files it removed, dropped the keys whose DELETE has run, orphans the
\* names of the request that had a row and no file when it arrived (the
\* row not that of an upload about to write the file), norow its names
\* that had no row then, settled the uploads that had ended by then,
\* failed the DELETE queries that were rejected.
DeleteIdle ==
    [pc |-> "idle", successful |-> <<>>, status |-> 0,
     pending |-> {}, unlinked |-> {}, dropped |-> {}, orphans |-> {},
     norow |-> {}, settled |-> {}, failed |-> {}]

\* A request to POST /api/sources: n is the length of filenames (NoArray when
\* the body has no such array), filenames the names the loop has reached,
\* sources the handler's list, threw whether the handler ended by an
\* exception.  recorded holds, for each name reached, the source the
\* registry had for it when its query was made (Null for none).
SourcesIdle ==
    [pc |-> "idle", n |-> 0, filenames |-> <<>>, sources |-> <<>>,
     status |-> 0, threw |-> FALSE, recorded |-> <<>>, updated |-> <<>>]

\* A request to PUT /api/update: given is req.body.sources, sources the
\* handler's list, listed the names of the request the handler got to or
\* threw before.  missing are the names that had no row when their
\* query was made, applied the names whose row the UPDATE changed,
\* rejected whether a query was rejected.
UpdateIdle ==
    [pc |-> "idle", n |-> 0, filenames |-> <<>>, given |-> <<>>,
     sources |-> <<>>, status |-> 0, threw |-> FALSE,
     listed |-> {}, missing |-> {}, applied |-> {}, rejected |-> FALSE]

\* A request to /source/:filename: outcome is what the handler did, seen
\* the row the registry had when the query was made.
ResolveIdle ==
    [pc |-> "idle", filename |-> <<>>, outcome |-> <<>>, seen |-> <<>>]

\* The server has started: no row, no file, no request.
Init ==
    /\ registry = <<>>
    /\ store = {}
    /\ parent = ParentFiles
    /\ dbUp = TRUE
    /\ up = [u \in Uploads |-> UploadIdle]
    /\ del = DeleteIdle
    /\ sel = SourcesIdle
    /\ upd = UpdateIdle
    /\ rsv = ResolveIdle

(***************************************************************************)
(* POST /api/upload                                                        *)
(***************************************************************************)
\* The request arrives and multer starts to read its parts.
UploadRequest(u) ==
    /\ up[u].pc = "idle"
    /\ up' = [up EXCEPT ![u].pc = "parse"]
    /\ UNCHANGED <<registry, store, parent, dbUp, del, meta>>

\* The extension check left out, as in the variant of lines 45-62.
ExtAllowedUnchecked(ext) == TRUE

\* Is ext one the server takes?
ExtAllowed(ext) == ext \in AllowedExts

\* storage.filename, up to its first await: the extension check and the
\* first candidate.
UploadFilename(u) ==
    /\ up[u].pc = "parse"
    /\ Len(up[u].files) < MaxFiles
    /\ \E orig \in OrigNames, hash \in generateHash(HASH_LENGTH) :
          LET ext == ExtName(orig) IN
          up' = [up EXCEPT ![u] =
                   IF ~ExtAllowed(ext)
                   THEN [@ EXCEPT !.pc = "abort", !.orig = orig, !.ext = ext,
                                  !.err = "ext", !.tries = 0, !.removed = {},
                                  !.infra = FALSE, !.dups = 0, !.ops = 0]
                   ELSE [@ EXCEPT !.pc = "insert", !.orig = orig, !.ext = ext,
                                  !.filename = hash \o ext, !.tries = 0,
                                  !.removed = {}, !.infra = FALSE, !.dups = 0,
                                  !.ops = 0]]
    /\ UNCHANGED <<registry, store, parent, dbUp, del, meta>>

\* The INSERT of the loop: the row is claimed and the loop left, or the
\* query is rejected (the key exists, or the registry is unreachable).
UploadInsert(u) ==
    /\ up[u].pc = "insert"
    /\ LET fn == up[u].filename IN
       IF dbUp /\ ~Has(registry, fn)
       THEN /\ registry' = RegInsert(registry, fn)
            /\ up' = [up EXCEPT ![u].pc = "write", ![u].ops = @ + 1]
       ELSE /\ registry' = registry
            /\ up' = [up EXCEPT ![u].pc = "cleanup", ![u].ops = @ + 1,
                                ![u].infra = @ \/ ~dbUp,
                                ![u].dups = IF dbUp THEN @ + 1 ELSE @]
    /\ UNCHANGED <<store, parent, dbUp, del, meta>>

\* What the loop does with the name whose INSERT was rejected.
CleanupRejected(reg, fn) == RegDelete(reg, fn)

\* A loop test that lets one round too many through.
LoopTestInclusive(t) == t <= MAX_TRIES

\* while (tries < 10)
LoopTest(t) == t < MAX_TRIES

\* The rest of a failed round: the DELETE of the rejected name (its own
\* failure is ignored), the next candidate, ++tries, and the loop test.
UploadCleanup(u) ==
    /\ up[u].pc = "cleanup"
    /\ LET fn == up[u].filename
           t  == up[u].tries + 1
       IN  /\ registry' = IF dbUp THEN CleanupRejected(registry, fn) ELSE registry
           /\ \E hash \in generateHash(HASH_LENGTH) :
                 up' = [up EXCEPT
                          ![u].filename = hash \o up[u].ext,
                          ![u].tries = t,
                          ![u].ops = @ + 1,
                          ![u].removed = @ \cup (DOMAIN registry \ DOMAIN registry'),
                          ![u].pc = IF LoopTest(t) THEN "insert" ELSE "abort",
                          ![u].err = IF LoopTest(t) THEN @ ELSE "exhausted"]
    /\ UNCHANGED <<store, parent, dbUp, del, meta>>

\* multer writes the file under the name storage.filename returned; the
\* write can fail.
UploadWrite(u) ==
    /\ up[u].pc = "write"
    /\ \E ok \in BOOLEAN :
          IF ok
          THEN /\ store' = store \cup {up[u].filename}
               /\ up' = [up EXCEPT ![u].pc = "parse", ![u].orig = NoFile,
                                   ![u].files = Append(@, up[u].filename)]
          ELSE /\ store' = store
               /\ up' = [up EXCEPT ![u].pc = "abort", ![u].err = "write"]
    /\ UNCHANGED <<registry, parent, dbUp, del, meta>>

\* What the upload handler does with the registry when multer reports an
\* error.
ReleaseOnError(reg, u) == reg

\* multer reports an error: it removes the files of the request it had
\* written, and the handler answers 500.
UploadAbort(u) ==
    /\ up[u].pc = "abort"
    /\ store' = store \ Range(up[u].files)
    /\ registry' = ReleaseOnError(registry, u)
    /\ up' = [up EXCEPT ![u].pc = "done", ![u].status = 500]
    /\ UNCHANGED <<parent, dbUp, del, meta>>

\* req.body.sources as the handler reads it: one value is not an array.
SourcesOf(given) ==
    IF Len(given) < 2
    THEN <<IF Len(given) = 0 THEN Null ELSE Str(given[1])>>
    ELSE [i \in DOMAIN given |-> Str(given[i])]

\* sources[i]; undefined is sent as NULL.
SourceAt(sources, i) == IF i \in DOMAIN sources THEN sources[i] ELSE Null

\* All parts are read without error: the handler issues one UPDATE per
\* file and answers 200 with the names.
UploadRespond(u) ==
    /\ up[u].pc = "parse"
    /\ \E n \in 0..MaxFiles : \E given \in [1..n -> SourceStrs] :
          LET sources == SourcesOf(given) IN
          up' = [up EXCEPT
                   ![u].pc = "done",
                   ![u].status = 200,
                   ![u].pending = {<<i, SourceAt(sources, i), up[u].files[i]>> :
                                      i \in DOMAIN up[u].files},
                   ![u].sent = {<<i, SourceAt(sources, i), up[u].files[i]>> :
                                   i \in DOMAIN up[u].files}]
    /\ UNCHANGED <<registry, store, parent, dbUp, del, meta>>

\* The pool runs one of the UPDATE queries of the handler; a rejection is
\* ignored.
UploadQuery(u) ==
    /\ \E q \in up[u].pending :
          /\ registry' = IF dbUp THEN RegUpdate(registry, q[2], q[3]) ELSE registry
          /\ up' = [up EXCEPT ![u].pending = @ \ {q}]
    /\ UNCHANGED <<store, parent, dbUp, del, meta>>

(***************************************************************************)
(* DELETE /api/delete                                                      *)
(***************************************************************************)
\* The names of the files uploads can store.
StoredNames == {h \o Jpg : h \in generateHash(HASH_LENGTH)}

\* The names a client asks to delete: stored names, the same behind a
\* directory, the parent directory, and a file of the parent directory.
DelNames ==
    StoredNames \cup {<<"d", "/">> \o n : n \in StoredNames}
       \cup {<<".", ".">>} \cup {DotDotSlash \o n : n \in ParentFiles}

\* path.join(FULL_PATH, name) is a directory: FULL_PATH or its parent.
IsDir(name) == name \in {<<>>, <<".">>, <<".", ".">>}

\* fs.existsSync(path.join(FULL_PATH, name))
existsSync(st, name) == name \in st \/ IsDir(name)

\* fs.unlinkSync(path.join(FULL_PATH, name)) returns: it throws on a
\* directory.
unlinkSync(st, name) == name \in st

\* The files the handler can reach, as paths from FULL_PATH.
FsView(st, par) == st \cup {DotDotSlash \o n : n \in par}

\* The files of FULL_PATH, and of the directory above, in such a view.
FsStore(view)  == {p \in view : "/" \notin Range(p)}
FsParent(view) == {n \in ParentFiles : DotDotSlash \o n \in view}

\* The name joined to the directory as it came, as in the variant of
\* line 167.
FilePathRaw(filename) == filename

\* The path, under FULL_PATH, of the file the handler looks for.
FilePath(filename) == Pop(Split(filename, "/"))

\* A round that issues the DELETE before it looks for the file, as in the
\* variant of lines 166-178.
DeleteOneRegistryFirst(acc, filename) ==
    LET filepath == FilePath(filename)
        issued   == [acc EXCEPT !.pending = @ \cup {filename}]
    IN  IF existsSync(acc.store, filepath) /\ unlinkSync(acc.store, filepath)
        THEN [issued EXCEPT !.store = @ \ {filepath},
                            !.successful = Append(@, filename),
                            !.unlinked = @ \cup {filepath}]
        ELSE issued

\* One round of the handler's loop; acc holds the store, the queries
\* issued, the list successful, and the files removed.
DeleteOne(acc, filename) ==
    LET filepath == FilePath(filename) IN
    IF existsSync(acc.store, filepath) /\ unlinkSync(acc.store, filepath)
    THEN [store      |-> acc.store \ {filepath},
          pending    |-> acc.pending \cup {filename},
          successful |-> Append(acc.successful, filename),
          unlinked   |-> acc.unlinked \cup {filepath}]
    ELSE acc

\* for (const filename of req.body.filenames)
RECURSIVE DeleteLoop(_, _)
DeleteLoop(filenames, acc) ==
    IF filenames = <<>> THEN acc
    ELSE DeleteLoop(Tail(filenames), DeleteOne(acc, Head(filenames)))

\* The lists of at most n names of S.
SeqsUpTo(S, n) == UNION {[1..m -> S] : m \in 0..n}

\* The handler, which does not wait: every file is removed and every
\* DELETE issued before any of the queries runs.
DeleteRequest ==
    /\ del.pc = "idle"
    /\ \E filenames \in SeqsUpTo(DelNames, MaxNames) :
          LET r == DeleteLoop(filenames,
                              [store |-> FsView(store, parent), pending |-> {},
                               successful |-> <<>>, unlinked |-> {}])
          IN  /\ store' = FsStore(r.store)
              /\ parent' = FsParent(r.store)
              /\ del' = [pc         |-> "done",
                         successful |-> r.successful,
                         status     |-> IF r.successful = <<>> THEN 400 ELSE 200,
                         pending    |-> r.pending,
                         unlinked   |-> r.unlinked,
                         dropped    |-> {},
                         orphans    |-> {f \in Range(filenames) :
                                           /\ Has(registry, f)
                                           /\ ~existsSync(store, FilePath(f))
                                           /\ \A u \in Uploads :
                                                 up[u].pc \in {"write", "abort"}
                                                    => up[u].filename # f},
                         norow      |-> {f \in Range(filenames) : ~Has(registry, f)},
                         settled    |-> {u \in Uploads :
                                           up[u].pc = "done" /\ up[u].pending = {}},
                         failed     |-> {}]
    /\ UNCHANGED <<registry, dbUp, up, meta>>

\* The pool runs one of the DELETE queries of the handler; a rejection is
\* ignored.
DeleteQuery ==
    /\ \E k \in del.pending :
          /\ registry' = IF dbUp THEN RegDelete(registry, k) ELSE registry
          /\ del' = [del EXCEPT !.pending = @ \ {k},
                                !.dropped = IF dbUp THEN @ \cup {k} ELSE @,
                                !.failed = IF dbUp THEN @ ELSE @ \cup {k}]
    /\ UNCHANGED <<store, parent, dbUp, up, meta>>

(***************************************************************************)
(* pool.query as the handlers of the sources use it                        *)
(***************************************************************************)
\* The names clients ask about.
MetaNames == StoredNames

\* The length of filenames when the body has no array of that name.
NoArray == 0 - 1

\* The sources clients set.
NewSources == {"s2"}

\* undefined
Undefined == <<"undefined">>

\* A TypeError thrown.
TypeError == <<"TypeError">>

\* The value pool.query resolves to: a pg Result, an object with the
\* fields rowCount and rows (the handlers read ret.rowCount).
QueryResult(rows) == <<"Result", Len(rows), rows>>

\* ret.rowCount
RowCount(ret) == ret[2]

\* SELECT source FROM images WHERE fn = $1
SelectSource(reg, fn) ==
    QueryResult(IF Has(reg, fn) THEN <<[source |-> reg[fn]]>> ELSE <<>>)

\* UPDATE images SET source = $1 WHERE fn = $2 RETURNING *
UpdateReturning(reg, source, fn) ==
    QueryResult(IF Has(reg, fn) THEN <<[fn |-> fn, source |-> source]>> ELSE <<>>)

\* pool.query(...).catch(() => { }): the Result, or undefined when the
\* query is rejected.
Caught(up_, result) == IF up_ THEN result ELSE Undefined

\* res?.at(0)?.source ?? dflt.  After a rejection res is undefined and
\* the value is dflt.  Otherwise res is a Result, which is not an array:
\* it has no method at, and the call res.at(0) throws.
FirstSourceOr(res, dflt) == IF res = Undefined THEN dflt ELSE TypeError

\* ret[0]: a Result has no property 0.
Index0(ret) == Undefined

\* What resolving leads to.
NotFound       == <<"next">>
Redirect(url)  == <<"redirect", url>>
LocalUrl(fn)   == <<"/", "images", "/", fn>>

\* The promise chain of /source/:filename for ret, the outcome of the
\* query (Undefined here stands for a rejection): .then with its three
\* branches, and .catch(() => next()) for a rejection or an exception.
ResolveOutcome(ret, filename) ==
    IF ret = Undefined THEN NotFound
    ELSE IF RowCount(ret) = 0 THEN NotFound
    ELSE IF Index0(ret) = Undefined THEN NotFound
    ELSE IF Index0(ret).source = Null THEN Redirect(LocalUrl(filename))
    ELSE Redirect(Index0(ret).source)

\* The source the registry records for fn, Null for none.
Recorded(reg, fn) == IF Has(reg, fn) THEN reg[fn] ELSE Null

(***************************************************************************)
(* POST /api/sources                                                       *)
(***************************************************************************)
\* The request arrives: 400 without an array filenames, 200 at once for
\* an empty one, otherwise the loop starts.
SourcesRequest ==
    /\ sel.pc = "idle"
    /\ \E n \in NoArray..MaxNames :
          sel' = [sel EXCEPT !.n = n,
                             !.pc = IF n > 0 THEN "query" ELSE "done",
                             !.status = IF n = NoArray THEN 400
                                        ELSE IF n = 0 THEN 200 ELSE 0]
    /\ UNCHANGED <<registry, store, parent, dbUp, up, del, upd, rsv>>

\* One round of the loop: the awaited SELECT for the next name, the push,
\* and after the last name the answer.  An exception ends the handler
\* without an answer of its own.
SourcesQuery ==
    /\ sel.pc = "query"
    /\ \E filename \in MetaNames :
          LET res   == Caught(dbUp, SelectSource(registry, filename))
              value == FirstSourceOr(res, Null)
              asked == [sel EXCEPT
                          !.filenames = Append(@, filename),
                          !.recorded = Append(@, Recorded(registry, filename)),
                          !.updated = Append(@, filename \in upd.applied)]
          IN  sel' = IF value = TypeError
                     THEN [asked EXCEPT !.pc = "done", !.threw = TRUE]
                     ELSE [asked EXCEPT
                             !.sources = Append(@, value),
                             !.pc = IF Len(asked.filenames) = sel.n
                                    THEN "done" ELSE "query",
                             !.status = IF Len(asked.filenames) = sel.n
                                        THEN 200 ELSE 0]
    /\ UNCHANGED <<registry, store, parent, dbUp, up, del, upd, rsv>>

(***************************************************************************)
(* PUT /api/update                                                         *)
(***************************************************************************)
\* req.body.sources: absent, or an array of strings.
GivenSources == {Undefined} \cup SeqsUpTo(NewSources, MaxNames)

\* req.body?.sources[i]: it throws when sources is absent; past the end
\* of the array it is undefined, sent as NULL.
GivenAt(given, i) ==
    IF given = Undefined THEN TypeError
    ELSE IF i \in DOMAIN given THEN Str(given[i]) ELSE Null

\* The request arrives: the two checks of the body, then the loop up to
\* its first await.  hasSource is whether the body has a field source.
UpdateRequest ==
    /\ upd.pc = "idle"
    /\ \E n \in NoArray..MaxNames, given \in GivenSources, hasSource \in BOOLEAN :
          IF n = NoArray \/ (hasSource /\ given = Undefined)
          THEN upd' = [upd EXCEPT !.pc = "done", !.status = 400]
          ELSE IF n = 0
          THEN upd' = [upd EXCEPT !.pc = "done", !.status = 200]
          ELSE IF GivenAt(given, 1) = TypeError
          THEN \E filenames \in [1..n -> MetaNames] :
                  upd' = [upd EXCEPT !.pc = "done", !.n = n,
                                     !.given = given, !.threw = TRUE,
                                     !.listed = Range(filenames)]
          ELSE upd' = [upd EXCEPT !.pc = "query", !.n = n, !.given = given]
    /\ UNCHANGED <<registry, store, parent, dbUp, up, del, sel, rsv>>

\* One round of the loop: the awaited UPDATE for the next name, the push,
\* and after the last name the answer 'OK, updated sources of ...'.
UpdateQuery ==
    /\ upd.pc = "query"
    /\ \E filename \in MetaNames :
          LET i      == Len(upd.filenames) + 1
              source == GivenAt(upd.given, i)
              res    == Caught(dbUp, UpdateReturning(registry, source, filename))
              value  == FirstSourceOr(res, Str("null"))
              asked  == [upd EXCEPT
                           !.filenames = Append(@, filename),
                           !.listed = @ \cup {filename},
                           !.missing = IF Has(registry, filename)
                                       THEN @ ELSE @ \cup {filename},
                           !.applied = IF dbUp /\ Has(registry, filename)
                                       THEN @ \cup {filename} ELSE @,
                           !.rejected = @ \/ ~dbUp]
          IN  /\ registry' = IF dbUp THEN RegUpdate(registry, source, filename)
                              ELSE registry
              /\ upd' = IF value = TypeError
                         THEN [asked EXCEPT !.pc = "done", !.threw = TRUE]
                         ELSE [asked EXCEPT
                                 !.sources = Append(@, value),
                                 !.pc = IF i = upd.n THEN "done" ELSE "query",
                                 !.status = IF i = upd.n THEN 200 ELSE 0]
    /\ UNCHANGED <<store, parent, dbUp, up, del, sel, rsv>>

(***************************************************************************)
(* /source/:filename                                                       *)
(***************************************************************************)
\* The request arrives and the SELECT is sent.
ResolveRequest ==
    /\ rsv.pc = "idle"
    /\ \E filename \in MetaNames :
          rsv' = [rsv EXCEPT !.pc = "query", !.filename = filename]
    /\ UNCHANGED <<registry, store, parent, dbUp, up, del, sel, upd>>

\* The query settles and the promise chain runs.
ResolveQuery ==
    /\ rsv.pc = "query"
    /\ LET ret == Caught(dbUp, SelectSource(registry, rsv.filename)) IN
       rsv' = [rsv EXCEPT
                 !.pc = "done",
                 !.outcome = ResolveOutcome(ret, rsv.filename),
                 !.seen = IF Has(registry, rsv.filename)
                          THEN <<registry[rsv.filename]>> ELSE <<>>]
    /\ UNCHANGED <<registry, store, parent, dbUp, up, del, sel, upd>>

(***************************************************************************)
(* Specifications                                                          *)
(***************************************************************************)
\* A step of upload request u.
UploadStep(u) ==
    \/ UploadRequest(u)
    \/ UploadFilename(u)
    \/ UploadInsert(u)
    \/ UploadCleanup(u)
    \/ UploadWrite(u)
    \/ UploadAbort(u)
    \/ UploadRespond(u)
    \/ UploadQuery(u)

\* A step of the delete request.
DeleteStep ==
    \/ DeleteRequest
    \/ DeleteQuery

\* The registry becomes unreachable, or reachable again.
DbFlap ==
    /\ dbUp' = ~dbUp
    /\ UNCHANGED <<registry, store, parent, up, del, meta>>

NextAlloc == \E u \in Uploads : UploadStep(u)

\* Concurrent uploads alone, the registry reachable.
SpecAlloc == Init /\ [][NextAlloc]_vars

Next ==
    \/ UploadStep(1)
    \/ DeleteStep

\* One upload of several files and a concurrent delete, the registry
\* reachable.
Spec == Init /\ [][Next]_vars

NextOutage ==
    \/ UploadStep(1)
    \/ DbFlap

\* One upload of several files against a registry that comes and goes.
SpecOutage == Init /\ [][NextOutage]_vars

\* The sources uploads record.
OldSources == {Null} \cup {Str(x) : x \in SourceStrs}

\* The server after uploads have ended: some names are stored, each with
\* its row and the source its upload gave, and no request is under way.
InitMeta ==
    /\ \E S \in SUBSET StoredNames : registry \in [S -> OldSources]
    /\ store = DOMAIN registry
    /\ parent = ParentFiles
    /\ dbUp = TRUE
    /\ up = [u \in Uploads |-> UploadIdle]
    /\ del = DeleteIdle
    /\ sel = SourcesIdle
    /\ upd = UpdateIdle
    /\ rsv = ResolveIdle

\* A step of the request for sources.
SourcesStep ==
    \/ SourcesRequest
    \/ SourcesQuery

\* A step of the update request.
UpdateStep ==
    \/ UpdateRequest
    \/ UpdateQuery

\* A step of the request to resolve a source.
ResolveStep ==
    \/ ResolveRequest
    \/ ResolveQuery

NextMeta ==
    \/ SourcesStep
    \/ UpdateStep
    \/ ResolveStep

\* Requests that read and set sources, after uploads, the registry
\* reachable.
SpecMeta == InitMeta /\ [][NextMeta]_vars

NextMetaOutage ==
    \/ SourcesStep
    \/ UpdateStep
    \/ DeleteStep
    \/ DbFlap

\* Requests for sources, an update and a delete, after uploads, against a
\* registry that comes and goes.
SpecMetaOutage == InitMeta /\ [][NextMetaOutage]_vars

(***************************************************************************)
(* Allocation                                                              *)
(***************************************************************************)
\* The names storage.filename has returned to upload u, in order: the
\* files written, and the name whose write is under way or has failed.
Allocs(u) ==
    up[u].files \o
       (IF up[u].pc = "write" \/ up[u].err = "write"
        THEN <<up[u].filename>> ELSE <<>>)

\* C1: with uploads alone, no two successful allocations (of one upload
\* or of two) return the same name: a name held by an upload is never
\* handed out again.
C1_NoNameAllocatedTwice ==
    \A u, v \in Uploads :
       \A i \in DOMAIN Allocs(u), j \in DOMAIN Allocs(v) :
          (u # v \/ i # j) => Allocs(u)[i] # Allocs(v)[j]

\* C2: when all MAX_TRIES candidates of a storage.filename call hit an
\* existing row, the call ends with the exhaustion error and has removed
\* no row of the registry.
C2_ExhaustionLeavesRegistry ==
    \A u \in Uploads :
       (up[u].err = "exhausted" /\ up[u].dups = MAX_TRIES)
          => up[u].removed = {}

\* C3: when storage.filename succeeds, the row of the returned name is
\* there with no source, and the call has removed no other row.
C3_SuccessOnlyInserts ==
    \A u \in Uploads :
       up[u].pc = "write"
          => /\ Has(registry, up[u].filename) => registry[up[u].filename] = Null
             /\ up[u].removed = {}

\* C4: a file whose extension is not one of .jpg, .png, .apng, .gif is
\* refused with the invalid-type error, and its storage.filename call
\* runs no query and no retry.
C4_InvalidExtensionRejected ==
    \A u \in Uploads :
       (up[u].orig # NoFile /\ ExtName(up[u].orig) \notin AllowedExts)
          => /\ up[u].pc \in {"abort", "done"}
             /\ up[u].err = "ext"
             /\ up[u].ops = 0
             /\ up[u].tries = 0

\* C4, its case: an upload refused for the extension of a file.
C4_Witness ==
    \E u \in Uploads :
       /\ up[u].err = "ext"
       /\ up[u].status = 500
       /\ ExtName(up[u].orig) \notin AllowedExts

\* C5: once an INSERT of a storage.filename call has failed because the
\* registry is unreachable, the call makes no further INSERT and does not
\* end with the exhaustion error.
C5_OutageNotRetried ==
    \A u \in Uploads :
       up[u].infra => (up[u].pc # "insert" /\ up[u].err # "exhausted")

(***************************************************************************)
(* Registry and store                                                      *)
(***************************************************************************)
\* Upload u has claimed a name whose file is not written, and has not yet
\* answered.
InWindow(u) == up[u].pc \in {"write", "abort"}

\* No request is in progress.
Quiet ==
    /\ \A u \in Uploads : up[u].pc \in {"idle", "done"} /\ up[u].pending = {}
    /\ del.pending = {}

\* C6: when no upload is between its claim and its write (and no delete
\* between its unlink and its DELETE), every name of the registry has its
\* file in the store.
C6_EveryRowHasItsFile ==
    ((\A u \in Uploads : ~InWindow(u)) /\ del.pending = {})
       => \A k \in DOMAIN registry : k \in store

\* C7: when no upload and no delete is in progress, every file of the
\* store has its row in the registry.
C7_EveryFileHasItsRow ==
    Quiet => \A f \in store : Has(registry, f)

\* C8: when an upload has answered failure because the write of a claimed
\* name failed, the row of that name is gone from the registry.
C8_ReleaseOnWriteFailure ==
    \A u \in Uploads :
       (up[u].status = 500 /\ up[u].err = "write")
          => ~Has(registry, up[u].filename)

\* C9: a delete request removes the file before the row: every DELETE it
\* has issued or the pool has run is for a name whose file this request
\* has already removed.
C9_FileRemovedBeforeRow ==
    \A k \in del.pending \cup del.dropped : FilePath(k) \in del.unlinked

\* C9, its case: a delete request has removed a file and then its row.
C9_Witness ==
    \E k \in del.dropped :
       /\ k \in Range(del.successful)
       /\ FilePath(k) \in del.unlinked
       /\ ~Has(registry, k)
       /\ FilePath(k) \notin store

\* C10: a delete of a name that has a row and no file removes the row
\* (the DELETE is issued) and reports the name as deleted.
C10_MissingFileStillDeleted ==
    \A f \in del.orphans :
       /\ f \in Range(del.successful)
       /\ f \in del.pending \cup del.dropped

\* C11: once a delete request that arrived after the uploads had ended
\* has answered and all its DELETE queries have run (no upload having
\* begun since), the file and the row of every name it reports as deleted
\* are gone, in whatever form the name was given.
C11_DeleteRemovesBoth ==
    (/\ del.pc = "done" /\ del.pending = {}
     /\ \A u \in Uploads : u \in del.settled \/ up[u].pc = "idle")
       => \A f \in Range(del.successful) :
             /\ FilePath(f) \notin store
             /\ ~Has(registry, FilePath(f))

\* C12: a name of a delete request that had no row when the request
\* arrived is not reported as deleted, so that no file is removed for it.
C12_NoRowNotDeleted ==
    \A f \in del.norow : f \notin Range(del.successful)

Inserts(u) == (up[u].ops + 1) \div 2

\* C19: a call of storage.filename sends at most MAX_TRIES INSERT queries
\* and goes on only while tries are left; it ends with the exhaustion
\* error only when MAX_TRIES INSERTs were sent and all were rejected, and
\* it returns a name only when its last INSERT was accepted (one INSERT
\* more than rejections).
C19_AllocateBounded ==
    \A u \in Uploads :
       /\ Inserts(u) <= MAX_TRIES
       /\ up[u].tries <= MAX_TRIES
       /\ up[u].pc \in {"insert", "cleanup"} => up[u].tries < MAX_TRIES
       /\ up[u].err = "exhausted"
             => Inserts(u) = MAX_TRIES /\ up[u].tries = MAX_TRIES
       /\ up[u].pc = "write"
             => up[u].ops = 2 * up[u].tries + 1

\* C19, its cases: a call has ended with the exhaustion error after
\* MAX_TRIES rejected INSERTs.
C19_Witness ==
    \E u \in Uploads :
       /\ up[u].err = "exhausted"
       /\ up[u].status = 500
       /\ Inserts(u) = MAX_TRIES

\* C18: at the step where an upload is answered 200, every name it
\* returns has its file in the store.
C18_AckedFilesStored ==
    [][\A u \in Uploads :
          (up[u].status # 200 /\ up'[u].status = 200)
             => Range(up'[u].files) \subseteq store']_vars

\* C13: when an update request has set the source of an existing name and
\* a request for sources asks for that name afterwards (no other update
\* and no delete exists here), the request for sources answers 200 and
\* its entry for the name is the source set.
C13_SetThenGet ==
    sel.pc = "done"
       => \A i \in DOMAIN sel.filenames :
             (sel.updated[i] /\ sel.recorded[i] # Null)
                => /\ sel.status = 200
                   /\ i \in DOMAIN sel.sources
                   /\ sel.sources[i] = sel.recorded[i]

\* C14: an update request that names a file without a row ends with the
\* answer not-found (404), not with the answer of an update that worked.
C14_AbsentIsNotFound ==
    (upd.pc = "done" /\ upd.missing # {}) => upd.status = 404

\* C15: a request for the sources of a list of names answers 200 with a
\* list of the same length whose i-th entry is the source the registry
\* records for the i-th name, null for a name without row or source.
C15_SourcesByPosition ==
    (sel.pc = "done" /\ sel.n # NoArray)
       => /\ sel.status = 200
          /\ Len(sel.sources) = sel.n
          /\ \A i \in DOMAIN sel.sources : sel.sources[i] = sel.recorded[i]

\* C16: resolving a name leads to its source when the row has one, to the
\* stored file when the row has none, and to not-found when there is no
\* row.
C16_ThreeOutcomes ==
    rsv.pc = "done"
       => rsv.outcome =
             IF rsv.seen = <<>> THEN NotFound
             ELSE IF rsv.seen[1] = Null THEN Redirect(LocalUrl(rsv.filename))
             ELSE Redirect(rsv.seen[1])

\* C20: with the registry unreachable, a request for sources does not
\* answer null for a name that has a source, an update whose query was
\* rejected does not answer 200, and a delete does not report a name whose
\* DELETE was rejected and whose row remains.
C20_OutageReported ==
    /\ \A i \in DOMAIN sel.sources :
          sel.recorded[i] # Null => sel.sources[i] # Null
    /\ upd.rejected => upd.status # 200
    /\ \A k \in del.failed :
          Has(registry, k) => k \notin Range(del.successful)

\* C21: an update request that lists names and has no sources ends with
\* the answer 200, and every listed name that has a row has no source
\* afterwards.
C21_OmittedSourcesClear ==
    (upd.pc = "done" /\ upd.n > 0 /\ upd.given = Undefined)
       => /\ upd.status = 200
          /\ \A f \in upd.listed : Has(registry, f) => registry[f] = Null

\* C22: once an upload that gave a source for each of its files has been
\* answered 200 and the pool has run all its UPDATE queries, with the
\* registry reachable and no delete request made, the registry records
\* for the i-th name returned the i-th source given.
C22_SourcesRecorded ==
    \A u \in Uploads :
       (/\ up[u].status = 200 /\ up[u].pending = {} /\ del.pc = "idle"
        /\ \A q \in up[u].sent : q[2] # Null)
          => \A q \in up[u].sent :
                Has(registry, q[3]) /\ registry[q[3]] = q[2]

\* C23: a row leaves the registry only in the step that runs the DELETE
\* of a delete request for its name, or in the step in which the upload
\* that claimed the name answers an error; and a row's source changes only
\* in a step that runs an UPDATE of the upload handler.
C23_RowsRemovedByDeleteOnly ==
    [][/\ \A k \in DOMAIN registry \ DOMAIN registry' :
             \/ k \in del.pending \ del'.pending
             \/ \E u \in Uploads :
                   /\ up[u].pc = "abort" /\ up'[u].pc = "done"
                   /\ up[u].filename = k
        /\ \A h \in DOMAIN registry \cap DOMAIN registry' :
             registry'[h] # registry[h]
                => \E u \in Uploads : up'[u].pending # up[u].pending]_vars

====
